---- MODULE Spec2Model ----
(***************************************************************************)
(* Model of the App component of src/index.tsx: the emergency episode, the *)
(* key gesture recognizer, the location watch and map, and the location    *)
(* sharing session.                                                        *)
(*                                                                         *)
(* One action is one browser task: an event handler, a timer callback or   *)
(* the resolution of an asynchronous request, run to completion, followed  *)
(* by React's re-render and the cleanup and re-run of every effect whose    *)
(* dependencies changed.  Callbacks see the state of the render that       *)
(* created them (their closure).                                           *)
(***************************************************************************)
EXTENDS Integers, FiniteSets, Sequences, TLC

\* ------------------------------------------------------------------ bounds
MaxPending == 2      \* asynchronous requests (position, media) in flight
MaxLeaked == 1       \* recorders that lost their reference while recording
MaxOldData == 1      \* data events of earlier recorders the model keeps track of
MaxCallTimer == 1    \* ticks counted by the call timer
MaxClockSteps == 4   \* quarter-hour steps of the wall clock
MaxFineSteps == 1    \* one-second steps of the wall clock
MaxSeconds == 3700   \* remaining seconds a countdown tick is shown

\* sample coordinates delivered by the geolocation API
Positions == {1, 2}

\* --------------------------------------------------------------- constants
NoLocation == 0                 \* useState(null) for location
NoEndTime == -1                 \* useState(null) for sharingEndTime
NoRef == 0                      \* useRef(null)
NoDuration == 0                 \* handleStartSharing(null)
NoError == "null"
LongPressMs == 1000
TapWindowMs == 1500
TickMs == 1000
QuadTaps == 4
MsPerMinute == 60000
Quantum == LongPressMs \div 2    \* granularity of the timer clock
SinceCap == TapWindowMs + Quantum \* cap of the time measured since a key-down
MaxRun == QuadTaps + 1           \* key-downs counted in one tap run
ClockStep == 15 * MsPerMinute    \* coarse step of the wall clock
Durations == {15, 30, 60}       \* the buttons of the sharing dialog
Views == {"home", "tools", "chat"}

ErrLocationDenied == "Location permission denied. Please enable it in your browser settings."
ErrPermissions == "Permissions for camera and microphone are required for full functionality."
ErrRecording == "Could not start recording. Permissions may be denied."
ErrGetLocation == "Could not get location. Please ensure location services are enabled."
ErrWatch == "Live location tracking failed. Sharing last known location."
ErrNotAvailable == "Location not available. Please enable location services and try again."
TextPaused == "Live tracking paused. Sharing last known location."
\* the chunks of a recording, by the capture they belong to: the one of the
\* recorder mediaRecorderRef holds, or an earlier one
Captures == {"own", "old"}
NoArtifact == [built |-> FALSE, chunks |-> {}]
NoData == [own |-> 0, old |-> 0]
TextIndefinite == "Sharing indefinitely"

VARIABLES
  \* React state (useState)
  view, isEmergency, location, error, isRecording,
  showFakeCall, showContactSelector, isCallActive, callTimer,
  showSharingOptions, isSharingLocation, sharingEndTime, remainingTime,
  volumeUpCount,
  \* refs and the platform objects behind them
  recorder,              \* state of the recorder mediaRecorderRef points to
  leaked,                \* recorders still recording that no ref points to
  recordedChunksRef,     \* the chunks in the buffer, by the capture they are of
  artifact,              \* the last recording downloaded by stopRecording
  dataPending,           \* dataavailable events of stopped recorders to come
  mapInstanceRef, maps,  \* Leaflet map instances, each with the position of
                         \* its marker, the centre of its view and whether
                         \* the user is dragging it
  locationWatchIdRef, watches,
  timerIntervalRef, callTimers,
  locationSharingTimerRef, shareTimers,
  volumeUpTimeoutRef, volumeUpTimers,
  longPressTimeoutRef, longPressTimers,
  siren, vibrating,
  \* asynchronous requests in flight
  permReq,               \* requestPermissions at mount
  posPending,            \* getCurrentPosition of activateEmergencyMode
  posStale,              \* ... of those, issued before the last handleStopEmergency
  mediaPending,          \* getUserMedia of startRecording
  \* environment
  now,                   \* Date.now()
  key,                   \* the volume key: "up", or held down: "tap" after a
                         \* key-down accepted as tap 1 to 3, "held" otherwise
  \* observation of the run (not program state)
  sinceDown,             \* ms since the last accepted key-down, capped
  run, runQuads,         \* accepted key-downs / QuadTaps of the current tap run
  pressLong,             \* LongPress classifications of the current press
  ended                  \* how the last sharing session ended

state == <<view, isEmergency, location, error, isRecording, showFakeCall,
           showContactSelector, isCallActive, callTimer, showSharingOptions,
           isSharingLocation, sharingEndTime, remainingTime, volumeUpCount>>
footage == <<recordedChunksRef, artifact, dataPending>>
refs == <<footage, recorder, leaked, mapInstanceRef, maps, locationWatchIdRef, watches,
          timerIntervalRef, callTimers, locationSharingTimerRef, shareTimers,
          volumeUpTimeoutRef, volumeUpTimers, longPressTimeoutRef,
          longPressTimers, siren, vibrating>>
pending == <<permReq, posPending, posStale, mediaPending>>
observed == <<sinceDown, run, runQuads, pressLong, ended>>
vars == <<state, refs, pending, now, key, observed>>

\* ------------------------------------------------------------ helpers
Min(a, b) == IF a < b THEN a ELSE b

Ids(S) == {t.id : t \in S}

\* setTimeout, setInterval, watchPosition and L.map hand out a handle that
\* names no live object: the smallest such number.  (A handle is stored in
\* its ref as soon as it is handed out, so a stale handle left in a ref is
\* overwritten before it could name the new object.)
FreshId(S) ==
  CHOOSE i \in 1..(Cardinality(S) + 1) :
    /\ i \notin Ids(S)
    /\ \A j \in 1..(i - 1) : j \in Ids(S)

\* watchPosition never returns the id of the watch that was just cleared:
\* the new watch gets the smallest id that is neither live nor the old one.
NewWatchId(ws, old) ==
  CHOOSE i \in 1..(Cardinality(ws) + 2) :
    /\ i \notin Ids(ws) \cup {old}
    /\ \A j \in 1..(i - 1) : j \in Ids(ws) \cup {old}

\* a cancel that cancels nothing
ClearNothing(S, ref) == S

\* clearTimeout, clearInterval, clearWatch, map.remove: the object named by
\* the handle is no longer live; a stale handle names nothing.
Clear(S, ref) == {t \in S : t.id # ref}

\* a number shown without padding
Pad2Plain(n) == ToString(n)

\* `${minutes.toString().padStart(2, '0')}`
Pad2(n) == IF n < 10 THEN "0" \o ToString(n) ELSE ToString(n)

\* the countdown text built by the sharing tick from the remaining seconds
TimeString(totalSeconds) ==
  LET hours == totalSeconds \div 3600
      minutes == (totalSeconds % 3600) \div 60
      seconds == totalSeconds % 60
  IN  (IF hours > 0 THEN ToString(hours) \o "h " ELSE "")
        \o Pad2(minutes) \o ":" \o Pad2(seconds) \o " remaining"

\* the screen the render shows
ScreenOf(call, fake, contacts, sharing, options, v) ==
  IF call THEN "call"
  ELSE IF fake THEN "ringing"
  ELSE IF contacts THEN "contacts"
  ELSE IF sharing THEN "sharing"
  ELSE IF options THEN "shareOptions"
  ELSE v

Screen == ScreenOf(isCallActive, showFakeCall, showContactSelector,
                   isSharingLocation, showSharingOptions, view)

\* the bottom navigation is rendered
NavVisible ==
  ~isCallActive /\ ~showFakeCall /\ ~showContactSelector
    /\ ~isSharingLocation /\ ~showSharingOptions

\* the element mapRef.current points to after a render: the map container of
\* the sharing screen, or of the home screen in emergency mode, or nothing
MapContainer(screen, em) ==
  IF screen = "sharing" THEN "sharing"
  ELSE IF screen = "home" /\ em THEN "home"
  ELSE "none"

\* a handler that drops key events during the emergency only
InertEpisodeOnly == isEmergency

\* the guard of handleKeyDown
Inert ==
  isEmergency \/ isCallActive \/ showFakeCall \/ showContactSelector
    \/ isSharingLocation \/ showSharingOptions

InFlight == posPending + posStale + mediaPending

\* ------------------------------------------------------------ effects
\* Each effect is given as what a render does to the refs it owns: the
\* cleanup of the previous run (which reads the previous render's state, its
\* closure), then the body (which reads the new state, primed).

\* a cleanup that forgets the watch without clearing it
WatchCleanupKeeps(ws, ref) == ws

\* The cleanup of the location effect: clearWatch.
WatchCleanup(ws, ref) == IF ref # NoRef THEN Clear(ws, ref) ELSE ws

\* The cleanup of the location effect removes the map when the render that
\* set the effect up had neither episode active.
MapCleanupRemoves(em, sharing, ref) == ~em /\ ~sharing /\ ref # NoRef

\* an effect that watches for the sharing session only
WatchWantedSharingOnly(em, sharing, loc) == sharing /\ loc # NoLocation

\* the condition under which the location effect sets up map and watch
WatchWanted(em, sharing, loc) == (em \/ sharing) /\ loc # NoLocation

\* L.map(...).setView and L.marker(...).addTo (lines 147-151): the view is
\* centred on the location and the marker stands on it
NewMap(i, c, loc) ==
  [id |-> i, container |-> c, marker |-> loc, center |-> loc,
   dragging |-> FALSE]

\* The location effect; locSet: setLocation was called (it stores a new
\* object every time, so the dependency changes whatever the coordinates);
\* ms: the maps as the handler left them.
LocationEffectOn(ms, locSet) ==
  IF ~(locSet \/ isEmergency' # isEmergency
         \/ isSharingLocation' # isSharingLocation)
  THEN /\ maps' = ms
       /\ UNCHANGED <<mapInstanceRef, locationWatchIdRef, watches>>
  ELSE
    LET ws1 == WatchCleanup(watches, locationWatchIdRef)
        removes == MapCleanupRemoves(isEmergency, isSharingLocation,
                                     mapInstanceRef)
        maps1 == IF removes THEN Clear(ms, mapInstanceRef) ELSE ms
        mref1 == IF removes THEN NoRef ELSE mapInstanceRef
        active == WatchWanted(isEmergency', isSharingLocation', location')
        container ==
          MapContainer(ScreenOf(isCallActive', showFakeCall',
                                showContactSelector', isSharingLocation',
                                showSharingOptions', view'), isEmergency')
        creates == active /\ container # "none" /\ mref1 = NoRef
        newMap == FreshId(maps1)
        newWatch == NewWatchId(ws1, locationWatchIdRef)
    IN  /\ maps' = IF creates
                   THEN maps1 \cup {NewMap(newMap, container, location')}
                   ELSE maps1
        /\ mapInstanceRef' = IF creates THEN newMap ELSE mref1
        /\ watches' = IF active
                      THEN ws1 \cup {[id |-> newWatch,
                                      sharing |-> isSharingLocation']}
                      ELSE ws1
        /\ locationWatchIdRef' = IF active THEN newWatch ELSE NoRef

LocationEffect(locSet) == LocationEffectOn(maps, locSet)

\* The call timer effect; ct: callTimer as the handler left it.
CallTimerEffect(ct) ==
  IF isCallActive' = isCallActive
  THEN /\ callTimer' = ct
       /\ UNCHANGED <<timerIntervalRef, callTimers>>
  ELSE
    LET cs1 == Clear(callTimers, timerIntervalRef)
        newTimer == FreshId(cs1)
    IN  IF isCallActive'
        THEN /\ callTimers' = cs1 \cup {[id |-> newTimer]}
             /\ timerIntervalRef' = newTimer
             /\ callTimer' = ct
        ELSE /\ callTimers' = cs1
             /\ timerIntervalRef' = timerIntervalRef
             /\ callTimer' = 0

\* a cleanup of the sharing effect that leaves the interval running
SharingCleanupKeeps(timers, ref) == timers

\* The cleanup of the sharing countdown effect: clearInterval.
SharingCleanup(timers, ref) == Clear(timers, ref)

\* The sharing countdown effect; rt: remainingTime as the handler left it.
\* The interval callback keeps the sharingEndTime of its render.
SharingEffect(rt) ==
  IF isSharingLocation' = isSharingLocation
       /\ sharingEndTime' = sharingEndTime
  THEN /\ remainingTime' = rt
       /\ UNCHANGED <<locationSharingTimerRef, shareTimers>>
  ELSE
    LET ss1 == SharingCleanup(shareTimers, locationSharingTimerRef)
        newTimer == FreshId(ss1)
    IN  IF isSharingLocation' /\ sharingEndTime' # NoEndTime
             /\ sharingEndTime' # 0
        THEN /\ shareTimers' = ss1 \cup {[id |-> newTimer,
                                          endTime |-> sharingEndTime']}
             /\ locationSharingTimerRef' = newTimer
             /\ remainingTime' = rt
        ELSE /\ shareTimers' = ss1
             /\ locationSharingTimerRef' = locationSharingTimerRef
             /\ remainingTime' = IF isSharingLocation'
                                      /\ sharingEndTime' = NoEndTime
                                 THEN TextIndefinite
                                 ELSE rt

\* the dependencies of the keyboard effect changed (activateEmergencyMode
\* is a new function exactly when isEmergency changed)
KeyDepsChanged ==
  \/ volumeUpCount' # volumeUpCount
  \/ isEmergency' # isEmergency
  \/ isCallActive' # isCallActive
  \/ showFakeCall' # showFakeCall
  \/ showContactSelector' # showContactSelector
  \/ isSharingLocation' # isSharingLocation
  \/ showSharingOptions' # showSharingOptions

\* The cleanup of the keyboard effect clears the timer each ref holds.
KeyCleanup(timers, ref) == Clear(timers, ref)

\* The keyboard effect; lp, lpRef, vu, vuRef: the long-press and tap-window
\* timers and refs as the handler left them.
KeyboardEffect(lp, lpRef, vu, vuRef) ==
  /\ longPressTimeoutRef' = lpRef
  /\ volumeUpTimeoutRef' = vuRef
  /\ longPressTimers' = IF KeyDepsChanged THEN KeyCleanup(lp, lpRef) ELSE lp
  /\ volumeUpTimers' = IF KeyDepsChanged THEN KeyCleanup(vu, vuRef) ELSE vu

\* The re-render that follows a handler: every effect, in the order of the
\* source.
Effects(locSet, ct, rt, lp, lpRef, vu, vuRef) ==
  /\ LocationEffect(locSet)
  /\ CallTimerEffect(ct)
  /\ SharingEffect(rt)
  /\ KeyboardEffect(lp, lpRef, vu, vuRef)

\* A render after a handler that touched no timer and no text.
Render(locSet) ==
  Effects(locSet, callTimer, remainingTime, longPressTimers,
          longPressTimeoutRef, volumeUpTimers, volumeUpTimeoutRef)

\* ------------------------------------------------------------ initial state
\* After the first render and its effects: requestPermissions is waiting for
\* the media stream, the key listeners are attached, nothing else runs.
Init ==
  /\ view = "home" /\ isEmergency = FALSE /\ location = NoLocation
  /\ error = NoError /\ isRecording = FALSE
  /\ showFakeCall = FALSE /\ showContactSelector = FALSE
  /\ isCallActive = FALSE /\ callTimer = 0
  /\ showSharingOptions = FALSE /\ isSharingLocation = FALSE
  /\ sharingEndTime = NoEndTime /\ remainingTime = ""
  /\ volumeUpCount = 0
  /\ recorder = "none" /\ leaked = 0
  /\ recordedChunksRef = {} /\ artifact = NoArtifact
  /\ dataPending = NoData
  /\ mapInstanceRef = NoRef /\ maps = {}
  /\ locationWatchIdRef = NoRef /\ watches = {}
  /\ timerIntervalRef = NoRef /\ callTimers = {}
  /\ locationSharingTimerRef = NoRef /\ shareTimers = {}
  /\ volumeUpTimeoutRef = NoRef /\ volumeUpTimers = {}
  /\ longPressTimeoutRef = NoRef /\ longPressTimers = {}
  /\ siren = FALSE /\ vibrating = FALSE
  /\ permReq = "media" /\ posPending = 0 /\ posStale = 0 /\ mediaPending = 0
  /\ now = 0 /\ key = "up"
  /\ sinceDown = SinceCap /\ run = 0 /\ runQuads = 0 /\ pressLong = 0
  /\ ended = "never"

\* an operation that is no key event leaves the observation of the keys
NoKeys == UNCHANGED <<sinceDown, run, runQuads, pressLong>>

\* ... and one that ends no sharing session leaves all of it
NoKey == NoKeys /\ UNCHANGED ended

\* ------------------------------------------------------------ permissions
\* requestPermissions: the media stream was granted, the position is asked
PermMediaGranted ==
  /\ permReq = "media"
  /\ permReq' = "position"
  /\ UNCHANGED <<state, refs, posPending, posStale, mediaPending, now, key>>
  /\ NoKey

PermMediaDenied ==
  /\ permReq = "media"
  /\ permReq' = "done"
  /\ error' = ErrPermissions
  /\ UNCHANGED <<view, isEmergency, location, isRecording, showFakeCall,
                 showContactSelector, isCallActive, showSharingOptions,
                 isSharingLocation, sharingEndTime, volumeUpCount>>
  /\ UNCHANGED <<footage, recorder, leaked, siren, vibrating>>
  /\ UNCHANGED <<posPending, posStale, mediaPending, now, key>>
  /\ Render(FALSE)
  /\ NoKey

PermPosition ==
  /\ permReq = "position"
  /\ permReq' = "done"
  /\ \E p \in Positions : location' = p
  /\ UNCHANGED <<view, isEmergency, error, isRecording, showFakeCall,
                 showContactSelector, isCallActive, showSharingOptions,
                 isSharingLocation, sharingEndTime, volumeUpCount>>
  /\ UNCHANGED <<footage, recorder, leaked, siren, vibrating>>
  /\ UNCHANGED <<posPending, posStale, mediaPending, now, key>>
  /\ Render(TRUE)
  /\ NoKey

PermPositionError ==
  /\ permReq = "position"
  /\ permReq' = "done"
  /\ error' = ErrLocationDenied
  /\ UNCHANGED <<view, isEmergency, location, isRecording, showFakeCall,
                 showContactSelector, isCallActive, showSharingOptions,
                 isSharingLocation, sharingEndTime, volumeUpCount>>
  /\ UNCHANGED <<footage, recorder, leaked, siren, vibrating>>
  /\ UNCHANGED <<posPending, posStale, mediaPending, now, key>>
  /\ Render(FALSE)
  /\ NoKey

\* ------------------------------------------------------------ emergency
\* an activation that sounds the alarm whatever isDiscreet says
SirenIgnoresDiscreet(em, isDiscreet, s) == IF em THEN s ELSE TRUE

\* an activation without the guard of line 106
RequestsAlways(em, n) == n + 1

\* activateEmergencyMode(isDiscreet) as seen by a caller whose closure holds
\* em for isEmergency: the alarm, the vibration and the position request.
SirenAfterActivate(em, isDiscreet, s) ==
  IF em \/ isDiscreet THEN s ELSE TRUE

RequestsAfterActivate(em, n) == IF em THEN n ELSE n + 1

ActivateEmergencyMode(em, isDiscreet) ==
  /\ siren' = SirenAfterActivate(em, isDiscreet, siren)
  /\ vibrating' = SirenAfterActivate(em, isDiscreet, vibrating)
  /\ posPending' = RequestsAfterActivate(em, posPending)

\* the vibration pattern of line 113 has run out
VibrationEnds ==
  /\ vibrating
  /\ vibrating' = FALSE
  /\ UNCHANGED <<state, pending, now, key>>
  /\ UNCHANGED <<footage, recorder, leaked, mapInstanceRef, maps, locationWatchIdRef,
                 watches, timerIntervalRef, callTimers,
                 locationSharingTimerRef, shareTimers, volumeUpTimeoutRef,
                 volumeUpTimers, longPressTimeoutRef, longPressTimers, siren>>
  /\ NoKey

\* an SOS button that is offered on every screen
SosOfferedAnywhere(screen, em) == ~em

\* the SOS button is rendered: on the home screen, with the episode idle
SosOffered(screen, em) == screen = "home" /\ ~em

\* the SOS button, confirmed
HandleSos ==
  /\ SosOffered(Screen, isEmergency)
  /\ InFlight < MaxPending
  /\ ActivateEmergencyMode(isEmergency, FALSE)
  /\ UNCHANGED <<view, isEmergency, location, error, isRecording,
                 showFakeCall, showContactSelector, isCallActive,
                 showSharingOptions, isSharingLocation, sharingEndTime,
                 volumeUpCount>>
  /\ UNCHANGED <<footage, recorder, leaked>>
  /\ UNCHANGED <<permReq, posStale, mediaPending, now, key>>
  /\ Render(FALSE)
  /\ NoKey

\* the requests a getCurrentPosition callback of activateEmergencyMode
\* leaves in flight; stale: the request was issued before the last
\* handleStopEmergency
TakeRequest(stale) ==
  /\ IF stale THEN posStale > 0 ELSE posPending > 0
  /\ posStale' = IF stale THEN posStale - 1 ELSE posStale
  /\ posPending' = IF stale THEN posPending ELSE posPending - 1

\* what the success callback of the position request stores in isEmergency
EmergencyAfterFix(em) == TRUE

\* the startRecording calls in flight after the success callback
CaptureAfterFix(n) == n + 1

\* an error callback that enters the emergency all the same
EmergencyAfterFixErrorSet(em) == TRUE

\* what the error callback leaves in isEmergency, and stores in error
EmergencyAfterFixError(em) == em

ErrorAfterFixError(e) == ErrGetLocation

\* the success callback of getCurrentPosition in activateEmergencyMode
PositionSuccess ==
  \E stale \in BOOLEAN, p \in Positions :
    /\ TakeRequest(stale)
    /\ location' = p
    /\ isEmergency' = EmergencyAfterFix(isEmergency)
    /\ mediaPending' = CaptureAfterFix(mediaPending)
    /\ UNCHANGED <<view, error, isRecording, showFakeCall,
                   showContactSelector, isCallActive, showSharingOptions,
                   isSharingLocation, sharingEndTime, volumeUpCount>>
    /\ UNCHANGED <<footage, recorder, leaked, siren, vibrating>>
    /\ UNCHANGED <<permReq, now, key>>
    /\ Render(TRUE)
    /\ NoKey

\* the error callback of getCurrentPosition in activateEmergencyMode
PositionError ==
  \E stale \in BOOLEAN :
    /\ TakeRequest(stale)
    /\ error' = ErrorAfterFixError(error)
    /\ isEmergency' = EmergencyAfterFixError(isEmergency)
    /\ UNCHANGED <<view, location, isRecording, showFakeCall,
                   showContactSelector, isCallActive, showSharingOptions,
                   isSharingLocation, sharingEndTime, volumeUpCount>>
    /\ UNCHANGED <<footage, recorder, leaked, siren, vibrating>>
    /\ UNCHANGED <<permReq, mediaPending, now, key>>
    /\ Render(FALSE)
    /\ NoKey

\* once a new recorder is in the ref, the chunks and data events of the one
\* before are those of an earlier capture
Earlier(chunks) == IF chunks = {} THEN {} ELSE {"old"}

\* ... and so are its data events; of those still to come the model follows
\* MaxOldData, a further one is taken not to arrive within the run
EarlierData(d) == [own |-> 0, old |-> Min(d.old + d.own, MaxOldData)]

\* startRecording after getUserMedia resolved: a new MediaRecorder replaces
\* the one mediaRecorderRef held, which goes on recording if it was
MediaGranted ==
  /\ mediaPending > 0
  /\ recorder = "recording" => leaked < MaxLeaked
  /\ mediaPending' = mediaPending - 1
  /\ leaked' = IF recorder = "recording" THEN leaked + 1 ELSE leaked
  /\ recorder' = "recording"
  /\ isRecording' = TRUE
  /\ recordedChunksRef' = Earlier(recordedChunksRef)
  /\ dataPending' = EarlierData(dataPending)
  /\ artifact' = artifact
  /\ UNCHANGED <<view, isEmergency, location, error, showFakeCall,
                 showContactSelector, isCallActive, showSharingOptions,
                 isSharingLocation, sharingEndTime, volumeUpCount>>
  /\ UNCHANGED <<siren, vibrating>>
  /\ UNCHANGED <<permReq, posPending, posStale, now, key>>
  /\ Render(FALSE)
  /\ NoKey

\* a data event of a recorder that was stopped (lines 93-97): the chunk, when
\* it is not empty, is pushed on the array recordedChunksRef holds now
DataAvailable(c) ==
  \E size \in {0, 1} :
    /\ dataPending[c] > 0
    /\ dataPending' = [dataPending EXCEPT ![c] = @ - 1]
    /\ recordedChunksRef' = IF size > 0 THEN recordedChunksRef \cup {c}
                            ELSE recordedChunksRef
    /\ UNCHANGED <<artifact, recorder, leaked, mapInstanceRef, maps,
                   locationWatchIdRef, watches, timerIntervalRef, callTimers,
                   locationSharingTimerRef, shareTimers, volumeUpTimeoutRef,
                   volumeUpTimers, longPressTimeoutRef, longPressTimers,
                   siren, vibrating>>
    /\ UNCHANGED <<state, pending, now, key>>
    /\ NoKey

DataEvents == \E c \in Captures : DataAvailable(c)

\* a catch of startRecording that gives the emergency up
EmergencyAfterMediaDeniedReset(em) == FALSE

\* what the catch of startRecording leaves in isEmergency
EmergencyAfterMediaDenied(em) == em

\* startRecording after getUserMedia rejected
MediaDenied ==
  /\ mediaPending > 0
  /\ mediaPending' = mediaPending - 1
  /\ error' = ErrRecording
  /\ isEmergency' = EmergencyAfterMediaDenied(isEmergency)
  /\ UNCHANGED <<view, location, isRecording, showFakeCall,
                 showContactSelector, isCallActive, showSharingOptions,
                 isSharingLocation, sharingEndTime, volumeUpCount>>
  /\ UNCHANGED <<footage, recorder, leaked, siren, vibrating>>
  /\ UNCHANGED <<permReq, posPending, posStale, now, key>>
  /\ Render(FALSE)
  /\ NoKey

\* stopRecording builds the artifact from the chunks in the buffer at that
\* moment (line 307) and then empties the buffer (line 317)
ArtifactAfterStop(r, chunks, a) ==
  IF r = "recording" THEN [built |-> TRUE, chunks |-> chunks] ELSE a

ChunksAfterStop(r, chunks) == IF r = "recording" THEN {} ELSE chunks

\* recorder.stop() (line 303) queues the data event of the recorder
DataAfterStop(r, d) ==
  IF r = "recording" THEN [d EXCEPT !.own = @ + 1] ELSE d

\* stopRecording: the recorder the ref holds, if it is recording
RecorderAfterStop(r) == IF r = "recording" THEN "inactive" ELSE r

RecordingAfterStop(r, rec) == IF r = "recording" THEN FALSE ELSE rec

\* the Stop Emergency button
HandleStopEmergency ==
  /\ Screen = "home" /\ isEmergency
  /\ isEmergency' = FALSE
  /\ recorder' = RecorderAfterStop(recorder)
  /\ isRecording' = RecordingAfterStop(recorder, isRecording)
  /\ artifact' = ArtifactAfterStop(recorder, recordedChunksRef, artifact)
  /\ recordedChunksRef' = ChunksAfterStop(recorder, recordedChunksRef)
  /\ dataPending' = DataAfterStop(recorder, dataPending)
  /\ siren' = FALSE
  /\ vibrating' = FALSE
  /\ posStale' = posStale + posPending
  /\ posPending' = 0
  /\ UNCHANGED <<view, location, error, showFakeCall, showContactSelector,
                 isCallActive, showSharingOptions, isSharingLocation,
                 sharingEndTime, volumeUpCount>>
  /\ UNCHANGED <<leaked, permReq, mediaPending, now, key>>
  /\ Render(FALSE)
  /\ NoKey

\* ------------------------------------------------------------ fake call
OpenContactSelector ==
  /\ Screen = "tools"
  /\ showContactSelector' = TRUE
  /\ UNCHANGED <<view, isEmergency, location, error, isRecording,
                 showFakeCall, isCallActive, showSharingOptions,
                 isSharingLocation, sharingEndTime, volumeUpCount>>
  /\ UNCHANGED <<footage, recorder, leaked, siren, vibrating, pending, now, key>>
  /\ Render(FALSE)
  /\ NoKey

CancelContactSelector ==
  /\ Screen = "contacts"
  /\ showContactSelector' = FALSE
  /\ UNCHANGED <<view, isEmergency, location, error, isRecording,
                 showFakeCall, isCallActive, showSharingOptions,
                 isSharingLocation, sharingEndTime, volumeUpCount>>
  /\ UNCHANGED <<footage, recorder, leaked, siren, vibrating, pending, now, key>>
  /\ Render(FALSE)
  /\ NoKey

\* a startFakeCall that leaves the contact selector open
SelectorKept(contacts) == contacts

\* what startFakeCall stores in showContactSelector (line 341)
SelectorAfterStartFakeCall(contacts) == FALSE

StartFakeCall ==
  /\ Screen = "contacts"
  /\ showContactSelector' = SelectorAfterStartFakeCall(showContactSelector)
  /\ showFakeCall' = TRUE
  /\ UNCHANGED <<view, isEmergency, location, error, isRecording,
                 isCallActive, showSharingOptions, isSharingLocation,
                 sharingEndTime, volumeUpCount>>
  /\ UNCHANGED <<footage, recorder, leaked, siren, vibrating, pending, now, key>>
  /\ Render(FALSE)
  /\ NoKey

DeclineCall ==
  /\ Screen = "ringing"
  /\ showFakeCall' = FALSE
  /\ UNCHANGED <<view, isEmergency, location, error, isRecording,
                 showContactSelector, isCallActive, showSharingOptions,
                 isSharingLocation, sharingEndTime, volumeUpCount>>
  /\ UNCHANGED <<footage, recorder, leaked, siren, vibrating, pending, now, key>>
  /\ Render(FALSE)
  /\ NoKey

HandleAcceptCall ==
  /\ Screen = "ringing"
  /\ showFakeCall' = FALSE
  /\ isCallActive' = TRUE
  /\ UNCHANGED <<view, isEmergency, location, error, isRecording,
                 showContactSelector, showSharingOptions, isSharingLocation,
                 sharingEndTime, volumeUpCount>>
  /\ UNCHANGED <<footage, recorder, leaked, siren, vibrating, pending, now, key>>
  /\ Render(FALSE)
  /\ NoKey

HandleHangUp ==
  /\ Screen = "call"
  /\ isCallActive' = FALSE
  /\ UNCHANGED <<view, isEmergency, location, error, isRecording,
                 showFakeCall, showContactSelector, showSharingOptions,
                 isSharingLocation, sharingEndTime, volumeUpCount>>
  /\ UNCHANGED <<footage, recorder, leaked, siren, vibrating, pending, now, key>>
  /\ Render(FALSE)
  /\ NoKey

\* ------------------------------------------------------------ navigation
SetView ==
  \E v \in Views \ {view} :
    /\ NavVisible
    /\ view' = v
    /\ UNCHANGED <<isEmergency, location, error, isRecording, showFakeCall,
                   showContactSelector, isCallActive, showSharingOptions,
                   isSharingLocation, sharingEndTime, volumeUpCount>>
    /\ UNCHANGED <<footage, recorder, leaked, siren, vibrating, pending, now, key>>
    /\ Render(FALSE)
    /\ NoKey

\* ------------------------------------------------------------ sharing
\* the Share Location tool, enabled once a position is known
OpenSharingOptions ==
  /\ Screen = "tools" /\ location # NoLocation
  /\ showSharingOptions' = TRUE
  /\ UNCHANGED <<view, isEmergency, location, error, isRecording,
                 showFakeCall, showContactSelector, isCallActive,
                 isSharingLocation, sharingEndTime, volumeUpCount>>
  /\ UNCHANGED <<footage, recorder, leaked, siren, vibrating, pending, now, key>>
  /\ Render(FALSE)
  /\ NoKey

CancelSharingOptions ==
  /\ Screen = "shareOptions"
  /\ showSharingOptions' = FALSE
  /\ UNCHANGED <<view, isEmergency, location, error, isRecording,
                 showFakeCall, showContactSelector, isCallActive,
                 isSharingLocation, sharingEndTime, volumeUpCount>>
  /\ UNCHANGED <<footage, recorder, leaked, siren, vibrating, pending, now, key>>
  /\ Render(FALSE)
  /\ NoKey

\* an end time that takes the duration for seconds
EndTimeInSeconds(durationInMinutes, t) ==
  IF durationInMinutes # NoDuration
  THEN t + durationInMinutes * 1000
  ELSE NoEndTime

\* the end time handleStartSharing stores; NoDuration: "Indefinitely"
EndTimeOf(durationInMinutes, t) ==
  IF durationInMinutes # NoDuration
  THEN t + durationInMinutes * 60 * 1000
  ELSE NoEndTime

\* a button of the sharing dialog
HandleStartSharing ==
  \E durationInMinutes \in Durations \cup {NoDuration} :
    /\ Screen = "shareOptions"
    /\ durationInMinutes # NoDuration =>
         now + durationInMinutes * MsPerMinute <= MaxClockSteps * ClockStep
    /\ UNCHANGED <<view, isEmergency, location, isRecording, showFakeCall,
                   showContactSelector, isCallActive, volumeUpCount>>
    /\ UNCHANGED <<footage, recorder, leaked, siren, vibrating, pending, now, key>>
    /\ IF location = NoLocation
       THEN /\ error' = ErrNotAvailable
            /\ UNCHANGED <<showSharingOptions, isSharingLocation,
                           sharingEndTime>>
            /\ Render(FALSE)
       ELSE /\ showSharingOptions' = FALSE
            /\ isSharingLocation' = TRUE
            /\ sharingEndTime' = EndTimeOf(durationInMinutes, now)
            /\ error' = error
            /\ Effects(FALSE, callTimer,
                       IF durationInMinutes # NoDuration
                       THEN remainingTime ELSE TextIndefinite,
                       longPressTimers, longPressTimeoutRef,
                       volumeUpTimers, volumeUpTimeoutRef)
    /\ NoKeys
    /\ ended' = IF location = NoLocation THEN ended ELSE "running"

\* a handleStopSharing that ends the emergency episode with the session
EmergencyAfterStopSharingReset(em) == FALSE

\* handleStopSharing stores nothing in isEmergency
EmergencyAfterStopSharing(em) == em

\* handleStopSharing: the state it stores, then the render
StopSharing ==
  /\ isSharingLocation' = FALSE
  /\ sharingEndTime' = NoEndTime
  /\ isEmergency' = EmergencyAfterStopSharing(isEmergency)
  /\ UNCHANGED <<view, location, error, isRecording,
                 showFakeCall, showContactSelector, isCallActive,
                 showSharingOptions, volumeUpCount>>
  /\ UNCHANGED <<footage, recorder, leaked, siren, vibrating, pending, now, key>>
  /\ Effects(FALSE, callTimer, "", longPressTimers, longPressTimeoutRef,
             volumeUpTimers, volumeUpTimeoutRef)

\* the Stop Sharing button
HandleStopSharing ==
  /\ Screen = "sharing" /\ location # NoLocation
  /\ StopSharing
  /\ NoKeys /\ ended' = "user"

\* ------------------------------------------------------------ the watch
\* the success callback of watchPosition
\* The map the ref names is being dragged by the user.
Dragged(ms, ref) == \E m \in ms : m.id = ref /\ m.dragging

\* What line 168 can read from dragging?._active, a private field of the
\* drag handler of the Leaflet map: true only while the user drags, and
\* undefined (false) where the library keeps no field of that name.
ActiveRead(dragged) == {FALSE, dragged}

\* lines 165-171: the marker is moved to the new position, and the view is
\* panned to it unless the value read for _active is true
MapAfterFix(m, p, active) ==
  [m EXCEPT !.marker = p, !.center = IF active THEN @ ELSE p]

MapsAfterFix(ms, ref, p, active) ==
  {IF m.id = ref THEN MapAfterFix(m, p, active) ELSE m : m \in ms}

WatchPosition ==
  \E w \in watches, p \in Positions,
     active \in ActiveRead(Dragged(maps, mapInstanceRef)) :
    /\ location' = p
    /\ UNCHANGED <<view, isEmergency, error, isRecording, showFakeCall,
                   showContactSelector, isCallActive, showSharingOptions,
                   isSharingLocation, sharingEndTime, volumeUpCount>>
    /\ UNCHANGED <<footage, recorder, leaked, siren, vibrating, pending, now, key>>
    /\ LocationEffectOn(MapsAfterFix(maps, mapInstanceRef, p, active), TRUE)
    /\ CallTimerEffect(callTimer)
    /\ SharingEffect(remainingTime)
    /\ KeyboardEffect(longPressTimers, longPressTimeoutRef,
                      volumeUpTimers, volumeUpTimeoutRef)
    /\ NoKey

\* The user drags the map on the screen: the view follows the finger.
DragMap ==
  \E m \in maps, p \in Positions :
    /\ m.id = mapInstanceRef
    /\ m.container = MapContainer(Screen, isEmergency)
    /\ maps' = (maps \ {m}) \cup {[m EXCEPT !.dragging = TRUE, !.center = p]}
    /\ UNCHANGED <<footage, recorder, leaked, mapInstanceRef,
                   locationWatchIdRef, watches, timerIntervalRef, callTimers,
                   locationSharingTimerRef, shareTimers, volumeUpTimeoutRef,
                   volumeUpTimers, longPressTimeoutRef, longPressTimers,
                   siren, vibrating>>
    /\ UNCHANGED <<state, pending, now, key>>
    /\ NoKey

\* The user lets go of the map.
DragEnd ==
  \E m \in maps :
    /\ m.id = mapInstanceRef /\ m.dragging
    /\ maps' = (maps \ {m}) \cup {[m EXCEPT !.dragging = FALSE]}
    /\ UNCHANGED <<footage, recorder, leaked, mapInstanceRef,
                   locationWatchIdRef, watches, timerIntervalRef, callTimers,
                   locationSharingTimerRef, shareTimers, volumeUpTimeoutRef,
                   volumeUpTimers, longPressTimeoutRef, longPressTimers,
                   siren, vibrating>>
    /\ UNCHANGED <<state, pending, now, key>>
    /\ NoKey

\* an error callback that wipes the status text
NoticeWiped(sharing, e, rt) == <<e, "">>

\* an error callback that takes every error for one of a sharing session
NoticeAlwaysSharing(sharing, e, rt) == <<e, TextPaused>>

\* the error and the status text the error callback of watchPosition leaves
NoticeAfterWatchError(sharing, e, rt) ==
  IF sharing THEN <<e, TextPaused>> ELSE <<ErrWatch, rt>>

\* the error callback of watchPosition; it keeps the isSharingLocation of the
\* render that started the watch
WatchError ==
  \E w \in watches :
    /\ error' = NoticeAfterWatchError(w.sharing, error, remainingTime)[1]
    /\ UNCHANGED <<view, isEmergency, location, isRecording, showFakeCall,
                   showContactSelector, isCallActive, showSharingOptions,
                   isSharingLocation, sharingEndTime, volumeUpCount>>
    /\ UNCHANGED <<footage, recorder, leaked, siren, vibrating, pending, now, key>>
    /\ Effects(FALSE, callTimer,
               NoticeAfterWatchError(w.sharing, error, remainingTime)[2],
               longPressTimers, longPressTimeoutRef,
               volumeUpTimers, volumeUpTimeoutRef)
    /\ NoKey

\* ------------------------------------------------------------ the clock
\* Date.now() moves on, by a second or by a quarter of an hour
AdvanceClock ==
  \E step \in {TickMs, ClockStep} :
    /\ IF step = TickMs
       THEN (now % ClockStep) \div TickMs < MaxFineSteps
       ELSE now \div ClockStep < MaxClockSteps
    /\ now' = now + step
    /\ UNCHANGED <<state, refs, pending, key>>
    /\ NoKey

\* ------------------------------------------------------------ the key
\* a tap count that is stored as counted, the fourth tap included
CountKeepsFourth(count) == count + 1

\* the tap count handleKeyDown stores for a key-down it accepts
CountAfterKeyDown(count) ==
  IF count + 1 >= QuadTaps THEN 0 ELSE count + 1

\* the long-press timers handleKeyDown leaves: a new one is started, and the
\* fourth tap clears it again
LongPressAfterKeyDown(timers, count) ==
  IF count + 1 >= QuadTaps
  THEN timers
  ELSE timers \cup {[id |-> FreshId(timers),
                     left |-> LongPressMs]}

\* the tap-window timers handleKeyDown leaves: the one the ref holds is
\* cleared, and below four taps a new one is started
TapWindowAfterKeyDown(timers, ref, count) ==
  IF count + 1 >= QuadTaps
  THEN Clear(timers, ref)
  ELSE Clear(timers, ref)
         \cup {[id |-> FreshId(Clear(timers, ref)),
                left |-> TapWindowMs]}

\* a fourth tap that activates like the long press does
QuadTapLoud == FALSE

\* the fourth tap activates discreetly, the long press does not
QuadTapDiscreet == TRUE

LongPressDiscreet == FALSE

\* a key-down of the volume key the handler acts on
AcceptedKeyDown ==
  LET quad == volumeUpCount + 1 >= QuadTaps
      lpNew == FreshId(longPressTimers)
      vuCleared == Clear(volumeUpTimers, volumeUpTimeoutRef)
      vuNew == FreshId(vuCleared)
  IN  /\ quad => InFlight < MaxPending
      /\ volumeUpCount' = CountAfterKeyDown(volumeUpCount)
      /\ IF quad
         THEN ActivateEmergencyMode(isEmergency, QuadTapDiscreet)
         ELSE UNCHANGED <<siren, vibrating, posPending>>
      /\ UNCHANGED <<view, isEmergency, location, error, isRecording,
                     showFakeCall, showContactSelector, isCallActive,
                     showSharingOptions, isSharingLocation, sharingEndTime>>
      /\ UNCHANGED <<footage, recorder, leaked, permReq, posStale, mediaPending, now>>
      /\ Effects(FALSE, callTimer, remainingTime,
                 LongPressAfterKeyDown(longPressTimers, volumeUpCount), lpNew,
                 TapWindowAfterKeyDown(volumeUpTimers, volumeUpTimeoutRef,
                                       volumeUpCount),
                 IF quad THEN volumeUpTimeoutRef ELSE vuNew)
      /\ key' = IF quad THEN "held" ELSE "tap"
      /\ sinceDown' = 0
      /\ pressLong' = 0
      /\ run' = IF run > 0 THEN Min(run + 1, MaxRun) ELSE 1
      /\ runQuads' = IF run = MaxRun THEN runQuads
                     ELSE (IF run > 0 THEN runQuads ELSE 0)
                            + (IF quad THEN 1 ELSE 0)
      /\ ended' = ended

\* a handler that acts on the repeated key-downs of a held key as well
ActsOnRepeat(keyName, repeat, inert) ==
  keyName = "AudioVolumeUp" /\ ~inert

\* the key-downs handleKeyDown acts on: the guard of lines 248-250, the key
\* test of line 252 and the repeat test of line 254
ActsOnKeyDown(keyName, repeat, inert) ==
  keyName = "AudioVolumeUp" /\ ~repeat /\ ~inert

\* a key-down event: handleKeyDown.  The volume key goes down when it is up
\* and repeats while it is held; another key changes nothing.
KeyDown ==
  \E keyName \in {"AudioVolumeUp", "Other"}, repeat \in BOOLEAN :
    /\ keyName = "AudioVolumeUp" => (repeat <=> key # "up")
    /\ IF ActsOnKeyDown(keyName, repeat, Inert)
       THEN AcceptedKeyDown
       ELSE /\ key' = IF keyName = "AudioVolumeUp" /\ ~repeat
                      THEN "held" ELSE key
            /\ UNCHANGED <<state, refs, pending, now>>
            /\ NoKey

\* a key-up handler that also forgets the taps counted so far
KeyUpForgetsTaps ==
  /\ key # "up"
  /\ key' = "up"
  /\ volumeUpCount' = 0
  /\ longPressTimers' = Clear(longPressTimers, longPressTimeoutRef)
  /\ UNCHANGED <<view, isEmergency, location, error, isRecording,
                 showFakeCall, showContactSelector, isCallActive, callTimer,
                 showSharingOptions, isSharingLocation, sharingEndTime,
                 remainingTime>>
  /\ UNCHANGED <<pending, now>>
  /\ UNCHANGED <<footage, recorder, leaked, mapInstanceRef, maps, locationWatchIdRef,
                 watches, timerIntervalRef, callTimers,
                 locationSharingTimerRef, shareTimers, volumeUpTimeoutRef,
                 volumeUpTimers, longPressTimeoutRef, siren, vibrating>>
  /\ pressLong' = 0
  /\ UNCHANGED <<sinceDown, run, runQuads, ended>>

\* a key-up event of the volume key: handleKeyUp
KeyUp ==
  /\ key # "up"
  /\ key' = "up"
  /\ longPressTimers' = Clear(longPressTimers, longPressTimeoutRef)
  /\ UNCHANGED <<state, pending, now>>
  /\ UNCHANGED <<footage, recorder, leaked, mapInstanceRef, maps, locationWatchIdRef,
                 watches, timerIntervalRef, callTimers,
                 locationSharingTimerRef, shareTimers, volumeUpTimeoutRef,
                 volumeUpTimers, longPressTimeoutRef, siren, vibrating>>
  /\ pressLong' = 0
  /\ UNCHANGED <<sinceDown, run, runQuads, ended>>

\* Half a second passes on the timer clock.  A timeout that is due runs
\* before time moves on.  The tap run is over once the window has passed, and
\* is no tap run once a press has been held for the long-press time.
Elapse(timers) == {[t EXCEPT !.left = @ - Quantum] : t \in timers}

TimePasses ==
  /\ \A t \in longPressTimers \cup volumeUpTimers : t.left >= Quantum
  /\ sinceDown < SinceCap \/ longPressTimers \cup volumeUpTimers # {}
  /\ longPressTimers' = Elapse(longPressTimers)
  /\ volumeUpTimers' = Elapse(volumeUpTimers)
  /\ sinceDown' = Min(sinceDown + Quantum, SinceCap)
  /\ run' = IF sinceDown' > TapWindowMs
               \/ (key = "tap" /\ sinceDown' >= LongPressMs)
            THEN 0 ELSE run
  /\ runQuads' = IF run' = 0 THEN 0 ELSE runQuads
  /\ UNCHANGED <<state, pending, now, key, pressLong, ended>>
  /\ UNCHANGED <<footage, recorder, leaked, mapInstanceRef, maps, locationWatchIdRef,
                 watches, timerIntervalRef, callTimers,
                 locationSharingTimerRef, shareTimers, volumeUpTimeoutRef,
                 longPressTimeoutRef, siren, vibrating>>

\* ------------------------------------------------------------ timers
\* the long-press timeout runs (lines 257-261); its activateEmergencyMode is
\* the one of the render that accepted the key-down, where isEmergency was
\* false
LongPressTimeout(t) ==
  /\ t.left = 0
  /\ InFlight < MaxPending
  /\ ActivateEmergencyMode(FALSE, LongPressDiscreet)
  /\ volumeUpCount' = 0
  /\ UNCHANGED <<view, isEmergency, location, error, isRecording,
                 showFakeCall, showContactSelector, isCallActive,
                 showSharingOptions, isSharingLocation, sharingEndTime>>
  /\ UNCHANGED <<footage, recorder, leaked, permReq, posStale, mediaPending, now, key>>
  /\ Effects(FALSE, callTimer, remainingTime,
             longPressTimers \ {t}, longPressTimeoutRef,
             Clear(volumeUpTimers, volumeUpTimeoutRef), volumeUpTimeoutRef)
  /\ pressLong' = Min(pressLong + 1, 2)
  /\ UNCHANGED <<sinceDown, run, runQuads, ended>>

\* the tap-window timeout runs (lines 274-276)
TapWindowTimeout(t) ==
  /\ t.left = 0
  /\ volumeUpCount' = 0
  /\ UNCHANGED <<view, isEmergency, location, error, isRecording,
                 showFakeCall, showContactSelector, isCallActive,
                 showSharingOptions, isSharingLocation, sharingEndTime>>
  /\ UNCHANGED <<footage, recorder, leaked, siren, vibrating, pending, now, key>>
  /\ Effects(FALSE, callTimer, remainingTime,
             longPressTimers, longPressTimeoutRef,
             volumeUpTimers \ {t}, volumeUpTimeoutRef)
  /\ NoKey

\* the call timer ticks (lines 201-203)
CallTick(t) ==
  /\ callTimer < MaxCallTimer
  /\ UNCHANGED <<view, isEmergency, location, error, isRecording,
                 showFakeCall, showContactSelector, isCallActive,
                 showSharingOptions, isSharingLocation, sharingEndTime,
                 volumeUpCount>>
  /\ UNCHANGED <<footage, recorder, leaked, siren, vibrating, pending, now, key>>
  /\ Effects(FALSE, callTimer + 1, remainingTime,
             longPressTimers, longPressTimeoutRef,
             volumeUpTimers, volumeUpTimeoutRef)
  /\ NoKey

\* a tick that lets the session run on at its end time
ExpiredLate(remaining) == remaining < 0

\* the session is over for a tick that sees this much time remaining
Expired(remaining) == remaining <= 0

\* the sharing countdown ticks (lines 215-234)
SharingTick(t) ==
  LET remaining == t.endTime - now
  IN  IF Expired(remaining)
      THEN /\ StopSharing
           /\ NoKeys /\ ended' = "expired"
      ELSE /\ UNCHANGED <<view, isEmergency, location, error, isRecording,
                          showFakeCall, showContactSelector, isCallActive,
                          showSharingOptions, isSharingLocation,
                          sharingEndTime, volumeUpCount>>
           /\ UNCHANGED <<footage, recorder, leaked, siren, vibrating, pending, now,
                          key>>
           /\ Effects(FALSE, callTimer, TimeString(remaining \div 1000),
                      longPressTimers, longPressTimeoutRef,
                      volumeUpTimers, volumeUpTimeoutRef)
           /\ NoKey

TimerKinds == {"longPress", "tapWindow", "call", "sharing"}

LiveTimers(kind) ==
  CASE kind = "longPress" -> longPressTimers
    [] kind = "tapWindow" -> volumeUpTimers
    [] kind = "call" -> callTimers
    [] kind = "sharing" -> shareTimers

\* the callback of a live timer of one kind runs
TimerTask(kind) ==
  \E t \in LiveTimers(kind) :
    CASE kind = "longPress" -> LongPressTimeout(t)
      [] kind = "tapWindow" -> TapWindowTimeout(t)
      [] kind = "call" -> CallTick(t)
      [] kind = "sharing" -> SharingTick(t)

\* the event loop runs a timer callback
TimerFires == \E kind \in TimerKinds : TimerTask(kind)

\* ------------------------------------------------------------ specification
\* The operations, by feature.
Permissions ==
  \/ PermMediaGranted \/ PermMediaDenied \/ PermPosition \/ PermPositionError

Emergency ==
  \/ HandleSos \/ VibrationEnds \/ PositionSuccess \/ PositionError
  \/ MediaGranted \/ MediaDenied \/ HandleStopEmergency

FakeCall ==
  \/ OpenContactSelector \/ CancelContactSelector \/ StartFakeCall
  \/ DeclineCall \/ HandleAcceptCall \/ HandleHangUp

Sharing ==
  \/ OpenSharingOptions \/ CancelSharingOptions \/ HandleStartSharing
  \/ HandleStopSharing

Watch == WatchPosition \/ WatchError

MapDrag == DragMap \/ DragEnd

Keys == KeyDown \/ KeyUp \/ TimePasses

\* The whole program: every operation, interleaved.
Next ==
  \/ Permissions \/ Emergency \/ DataEvents \/ FakeCall \/ SetView
  \/ Sharing \/ Watch \/ MapDrag \/ AdvanceClock \/ Keys \/ TimerFires

Spec == Init /\ [][Next]_vars

\* The program is checked feature by feature: each specification below runs
\* the operations of the features a group of properties is about, with every
\* operation as defined above.

\* the emergency episode: activation by the SOS button, the position and
\* media requests, the watch, deactivation
NextEpisode == Permissions \/ Emergency \/ SetView \/ Watch

SpecEpisode == Init /\ [][NextEpisode]_vars

\* the key gesture: key events and time, the timers, the activation they
\* trigger, and the fake call as the overlay that makes the keys inert
NextKeys ==
  \/ Keys \/ TimerFires \/ FakeCall \/ SetView
  \/ PositionSuccess \/ PositionError \/ HandleStopEmergency

SpecKeys == Init /\ [][NextKeys]_vars

\* the sharing session: the dialog, the countdown, the watch, the clock
NextSharing ==
  \/ Permissions \/ SetView \/ Sharing \/ Watch \/ AdvanceClock \/ TimerFires

SpecSharing == Init /\ [][NextSharing]_vars


\* the sharing feature with a clock that moves on and a countdown that ticks
\* while its interval is live (setInterval, line 215)
FairSharing ==
  SpecSharing /\ WF_vars(AdvanceClock) /\ WF_vars(TimerTask("sharing"))

\* the two consumers of the position watch together: the emergency episode
\* (with a capture that fails to start) and the sharing session
NextTrack ==
  \/ PermMediaGranted \/ PermPosition
  \/ HandleSos \/ PositionSuccess \/ MediaDenied \/ HandleStopEmergency
  \/ SetView \/ Sharing \/ Watch \/ TimerFires

SpecTrack == Init /\ [][NextTrack]_vars

\* key events and the overlays and episodes that make the handler drop them,
\* at one instant of the timer clock
NextInert ==
  \/ KeyDown \/ KeyUp \/ TimerFires \/ FakeCall \/ SetView
  \/ PermMediaGranted \/ PermPosition \/ Sharing
  \/ PositionSuccess \/ HandleStopEmergency

SpecInert == Init /\ [][NextInert]_vars

\* The permissions were granted and requestPermissions has stored the first
\* position (the state after PermMediaGranted and PermPosition), and nothing
\* else has happened.
Located ==
  /\ view = "home" /\ isEmergency = FALSE /\ location \in Positions
  /\ error = NoError /\ isRecording = FALSE
  /\ showFakeCall = FALSE /\ showContactSelector = FALSE
  /\ isCallActive = FALSE /\ callTimer = 0
  /\ showSharingOptions = FALSE /\ isSharingLocation = FALSE
  /\ sharingEndTime = NoEndTime /\ remainingTime = ""
  /\ volumeUpCount = 0
  /\ recorder = "none" /\ leaked = 0
  /\ recordedChunksRef = {} /\ artifact = NoArtifact
  /\ dataPending = NoData
  /\ mapInstanceRef = NoRef /\ maps = {}
  /\ locationWatchIdRef = NoRef /\ watches = {}
  /\ timerIntervalRef = NoRef /\ callTimers = {}
  /\ locationSharingTimerRef = NoRef /\ shareTimers = {}
  /\ volumeUpTimeoutRef = NoRef /\ volumeUpTimers = {}
  /\ longPressTimeoutRef = NoRef /\ longPressTimers = {}
  /\ siren = FALSE /\ vibrating = FALSE
  /\ permReq = "done" /\ posPending = 0 /\ posStale = 0 /\ mediaPending = 0
  /\ key = "up"
  /\ sinceDown = SinceCap /\ run = 0 /\ runQuads = 0 /\ pressLong = 0
  /\ ended = "never"

InitGuarded == Located /\ now = 0

\* the key gesture and the SOS button beside the sharing session, with a
\* position request that may resolve at any time
NextGuarded ==
  \/ Keys \/ TimerFires \/ HandleSos \/ PositionSuccess
  \/ SetView \/ Sharing

SpecGuarded == InitGuarded /\ [][NextGuarded]_vars

\* The capture of the emergency episode: activation, the recorder, the stop
\* with its download, and the data events of the stopped recorders.
NextCapture ==
  \/ HandleSos \/ PositionSuccess \/ PositionError
  \/ MediaGranted \/ MediaDenied \/ HandleStopEmergency \/ DataEvents
  \/ SetView

SpecCapture == Init /\ [][NextCapture]_vars

\* The map of the emergency episode: activation and stop, the position
\* watch, and the user dragging the map.
NextMap ==
  \/ HandleSos \/ PositionSuccess \/ HandleStopEmergency
  \/ SetView \/ Watch \/ MapDrag

SpecMap == Init /\ [][NextMap]_vars

\* Stopping one of two episodes.  The emergency episode has been started
\* with the SOS button at time 0 and its capture runs (the state after
\* HandleSos, PositionSuccess, MediaGranted); from there the sharing session
\* with its countdown, the clock, the timers, and the stop of either.
EpisodeStarted ==
  /\ view = "home" /\ isEmergency = TRUE /\ location \in Positions
  /\ error = NoError /\ isRecording = TRUE
  /\ showFakeCall = FALSE /\ showContactSelector = FALSE
  /\ isCallActive = FALSE /\ callTimer = 0
  /\ showSharingOptions = FALSE /\ isSharingLocation = FALSE
  /\ sharingEndTime = NoEndTime /\ remainingTime = ""
  /\ volumeUpCount = 0
  /\ recorder = "recording" /\ leaked = 0
  /\ recordedChunksRef = {} /\ artifact = NoArtifact
  /\ dataPending = NoData
  /\ mapInstanceRef = 1 /\ maps = {NewMap(1, "home", location)}
  /\ locationWatchIdRef = 1 /\ watches = {[id |-> 1, sharing |-> FALSE]}
  /\ timerIntervalRef = NoRef /\ callTimers = {}
  /\ locationSharingTimerRef = NoRef /\ shareTimers = {}
  /\ volumeUpTimeoutRef = NoRef /\ volumeUpTimers = {}
  /\ longPressTimeoutRef = NoRef /\ longPressTimers = {}
  /\ siren = TRUE /\ vibrating = TRUE
  /\ permReq = "media" /\ posPending = 0 /\ posStale = 0 /\ mediaPending = 0
  /\ key = "up"
  /\ sinceDown = SinceCap /\ run = 0 /\ runQuads = 0 /\ pressLong = 0
  /\ ended = "never"

InitStop == EpisodeStarted /\ now = 0

NextStop ==
  \/ VibrationEnds \/ HandleStopEmergency \/ DataEvents
  \/ SetView \/ Sharing \/ AdvanceClock \/ TimerFires

SpecStop == InitStop /\ [][NextStop]_vars

\* The countdown text.  A session of one hour that began at time 0 is under
\* way (the state after PermMediaGranted, PermPosition, SetView,
\* OpenSharingOptions and HandleStartSharing), and the wall clock stands
\* anywhere within MaxSeconds of the session's end: Date.now() is read at
\* every millisecond, and the system may have set it back since the start.
SessionStarted ==
  /\ view = "tools" /\ isEmergency = FALSE /\ location \in Positions
  /\ error = NoError /\ isRecording = FALSE
  /\ showFakeCall = FALSE /\ showContactSelector = FALSE
  /\ isCallActive = FALSE /\ callTimer = 0
  /\ showSharingOptions = FALSE /\ isSharingLocation = TRUE
  /\ sharingEndTime = EndTimeOf(60, 0) /\ remainingTime = ""
  /\ volumeUpCount = 0
  /\ recorder = "none" /\ leaked = 0
  /\ recordedChunksRef = {} /\ artifact = NoArtifact
  /\ dataPending = NoData
  /\ mapInstanceRef = 1 /\ maps = {NewMap(1, "sharing", location)}
  /\ locationWatchIdRef = 1 /\ watches = {[id |-> 1, sharing |-> TRUE]}
  /\ timerIntervalRef = NoRef /\ callTimers = {}
  /\ locationSharingTimerRef = 1
  /\ shareTimers = {[id |-> 1, endTime |-> EndTimeOf(60, 0)]}
  /\ volumeUpTimeoutRef = NoRef /\ volumeUpTimers = {}
  /\ longPressTimeoutRef = NoRef /\ longPressTimers = {}
  /\ siren = FALSE /\ vibrating = FALSE
  /\ permReq = "done" /\ posPending = 0 /\ posStale = 0 /\ mediaPending = 0
  /\ key = "up"
  /\ sinceDown = SinceCap /\ run = 0 /\ runQuads = 0 /\ pressLong = 0
  /\ ended = "running"

InitCountdown ==
  /\ SessionStarted
  /\ \E n \in 0..MaxSeconds, ms \in {0, TickMs - 1} :
       now = EndTimeOf(60, 0) - (n * 1000 + ms)

NextCountdown == TimerFires

SpecCountdown == InitCountdown /\ [][NextCountdown]_vars

\* ------------------------------------------------------------ gestures
\* C1: once the fourth key-down of a run of timely taps has been accepted,
\* QuadTap has fired exactly once in the run, and right after that fourth
\* key-down the tap count is 0 and no long-press timer is armed.
C1_QuadTapOncePerRun ==
  /\ run >= QuadTaps => runQuads = 1
  /\ run = QuadTaps => volumeUpCount = 0 /\ longPressTimers = {}

\* a run of four timely taps that follows an older tap has been accepted
C1_Witness == run = QuadTaps /\ runQuads = 1 /\ volumeUpCount = 1

\* C2: a volume key that has been down for more than the long-press time,
\* after a key-down that was not a fourth tap and with the handler active,
\* has been classified as LongPress exactly once.
C2_LongPressFiresOnce ==
  (key = "tap" /\ sinceDown > LongPressMs /\ ~Inert) => pressLong = 1

\* the key has been down past the long-press time and no timer is left
C2_Witness ==
  key = "tap" /\ sinceDown > LongPressMs /\ ~Inert /\ longPressTimers = {}

\* the fourth tap of a count: an accepted key-down that finds the count at 3
FourthTap ==
  /\ key = "up" /\ key' # "up"
  /\ ~Inert
  /\ volumeUpCount = QuadTaps - 1

\* C3: the key-down that is the fourth tap resets the count, leaves no
\* long-press timer armed, issues one position request and starts neither the
\* siren nor the vibration; and no LongPress is classified for a press that
\* armed no long-press timer.
C3_FourthTapPreemptsLongPress ==
  /\ [][FourthTap => /\ volumeUpCount' = 0
                     /\ longPressTimers' = {}
                     /\ posPending' = posPending + 1
                     /\ siren' = siren /\ vibrating' = vibrating]_vars
  /\ [](key = "held" => pressLong = 0)

\* the fourth tap has just activated the emergency, discreetly
C3_Witness ==
  /\ key = "held" /\ sinceDown = 0 /\ run >= 1
  /\ volumeUpCount = 0 /\ posPending = 1
  /\ longPressTimers = {} /\ ~siren /\ ~vibrating

\* ------------------------------------------------------------ episode
\* C4: a position request of the current activation that resolves while the
\* episode is already active (the request of a second activateEmergencyMode
\* call) is not applied: it starts no capture.
C4_SecondActivationNotApplied ==
  [][(isEmergency /\ posPending' = posPending - 1 /\ posStale' = posStale)
       => mediaPending' = mediaPending]_vars

\* two requests of one activation are in flight at once
C4_Witness == ~isEmergency /\ posPending = 2 /\ posStale = 0

\* C5: a position request that was in flight when handleStopEmergency ran
\* changes nothing of the episode when it resolves: the episode is not set
\* active, no capture starts and the location is not replaced.
C5_StaleFixDiscarded ==
  [][posStale' < posStale => /\ isEmergency' = isEmergency
                             /\ mediaPending' = mediaPending
                             /\ location' = location]_vars

\* a request is still in flight after handleStopEmergency
C5_Witness == ~isEmergency /\ posStale = 1 /\ posPending = 0

\* C6: a failing position request leaves the episode as it is, starts no
\* capture and stores the location error; a succeeding one, a retry after a
\* failure included, sets the episode active.
C6_FailedFixNotActive ==
  /\ [][PositionError => /\ isEmergency' = isEmergency
                         /\ mediaPending' = mediaPending
                         /\ recorder' = recorder
                         /\ isRecording' = isRecording
                         /\ error' = ErrGetLocation]_vars
  /\ [][PositionSuccess => isEmergency']_vars

\* the only position request has failed: idle, the error shown, SOS on offer
C6_Witness ==
  /\ ~isEmergency /\ error = ErrGetLocation
  /\ InFlight = 0 /\ recorder = "none" /\ location = NoLocation
  /\ Screen = "home"

\* C7: with the episode idle and no position request in flight, neither the
\* siren nor the vibration is running.
C7_NoAlarmWhileIdle ==
  (~isEmergency /\ posPending = 0 /\ posStale = 0) => (~siren /\ ~vibrating)

\* the position request of the SOS button has failed
C7_Witness ==
  /\ ~isEmergency /\ error = ErrGetLocation /\ InFlight = 0
  /\ location = NoLocation /\ siren

\* C8: a capture that fails to start leaves the episode, the position and
\* the position watch as they are, leaves isRecording false and stores the
\* recording error, which is not the location error; and an active episode
\* has a position and a live watch.
C8_CaptureFailureKeepsEpisode ==
  /\ [][MediaDenied => /\ isEmergency' = isEmergency
                       /\ location' = location
                       /\ watches' = watches
                       /\ locationWatchIdRef' = locationWatchIdRef
                       /\ isRecording' = isRecording
                       /\ error' = ErrRecording
                       /\ error' # ErrGetLocation]_vars
  /\ [](isEmergency => /\ location # NoLocation
                       /\ \E w \in watches : w.id = locationWatchIdRef)

\* the episode is active and tracked although its capture failed
C8_Witness ==
  /\ isEmergency /\ error = ErrRecording
  /\ ~isRecording /\ recorder = "none" /\ InFlight = 0
  /\ location # NoLocation /\ watches # {}

\* C9: handleStopEmergency leaves the episode idle, isRecording false, no
\* recorder recording, the siren paused and the vibration cancelled.
C9_StopEndsEverything ==
  [][HandleStopEmergency => /\ ~isEmergency'
                            /\ ~isRecording'
                            /\ recorder' # "recording"
                            /\ leaked' = 0
                            /\ ~siren' /\ ~vibrating']_vars

\* the episode has been stopped and its capture with it
C9_Witness ==
  /\ ~isEmergency /\ recorder = "inactive" /\ ~isRecording
  /\ ~siren /\ InFlight = 0

\* ------------------------------------------------------------ sharing
\* a countdown tick that sees no time remaining of a finite session
ExpiringTick ==
  /\ isSharingLocation /\ sharingEndTime # NoEndTime
  /\ sharingEndTime <= now
  /\ TimerTask("sharing")

\* C10: the first countdown tick that sees no time remaining ends a finite
\* session (not sharing, no end time, the status text cleared, no interval
\* left), an earlier tick does not, and under fair ticking a finite session
\* always eventually ends.
C10_FiniteSessionExpires ==
  /\ [][ExpiringTick => /\ ~isSharingLocation'
                        /\ sharingEndTime' = NoEndTime
                        /\ remainingTime' = ""
                        /\ shareTimers' = {}]_vars
  /\ [][(isSharingLocation /\ sharingEndTime > now /\ TimerTask("sharing"))
          => isSharingLocation']_vars
  /\ ((isSharingLocation /\ sharingEndTime # NoEndTime) ~> ~isSharingLocation)

\* a finite session has ended by its countdown
C10_Witness ==
  /\ ended = "expired" /\ ~isSharingLocation
  /\ remainingTime = "" /\ sharingEndTime = NoEndTime /\ shareTimers = {}


\* an indefinite session is under way
Indefinite == isSharingLocation /\ sharingEndTime = NoEndTime

\* C11 as stated: the status text of an indefinite session is "Sharing
\* indefinitely" in every state while the session is active.
C11_IndefiniteTextConstant == Indefinite => remainingTime = TextIndefinite

\* C11: the status text of an indefinite session is "Sharing indefinitely"
\* until a watch error replaces it by the paused notice, and nothing else
\* changes it; the session has no countdown interval, never gets an end
\* time, and ends only by the user's handleStopSharing.
C11_IndefiniteTextUntilWatchError ==
  /\ [](Indefinite => /\ remainingTime \in {TextIndefinite, TextPaused}
                      /\ shareTimers = {})
  /\ [][(Indefinite /\ Indefinite' /\ remainingTime' # remainingTime)
          => (WatchError /\ remainingTime' = TextPaused)]_vars
  /\ [][(Indefinite /\ ~Indefinite')
          => (~isSharingLocation' /\ ended' = "user")]_vars

\* an indefinite session shows the paused notice after a watch error
C11_Witness == Indefinite /\ remainingTime = TextPaused /\ watches # {}


\* C13: the Stop Sharing button ends a session, finite or indefinite, at
\* once: afterwards isSharingLocation is false, sharingEndTime is null, the
\* status text is empty and no sharing interval is live.
C13_StopSharingEndsSession ==
  /\ [][HandleStopSharing => /\ ~isSharingLocation'
                             /\ sharingEndTime' = NoEndTime
                             /\ remainingTime' = ""
                             /\ shareTimers' = {}]_vars
  /\ [](isSharingLocation => ENABLED HandleStopSharing)

\* the user has stopped a finite session before its end
C13_Witness ==
  /\ ended = "user" /\ ~isSharingLocation /\ remainingTime = ""
  /\ locationSharingTimerRef # NoRef /\ shareTimers = {}
  /\ now = 0


\* two decimal digits
Two(n) == ToString(n \div 10) \o ToString(n % 10)

\* C14: the countdown text a tick shows for N whole remaining seconds is
\* "{m:02}:{s:02} remaining" with h = N div 3600, m = (N mod 3600) div 60,
\* s = N mod 60, prefixed by "{h}h " exactly when h > 0, where
\* h*3600 + m*60 + s = N, m < 60 and s < 60; 3661 gives "1h 01:01 remaining"
\* and 59 gives "00:59 remaining".
C14_CountdownText ==
  (isSharingLocation /\ remainingTime # "") =>
    LET N == (sharingEndTime - now) \div 1000
        h == N \div 3600
        m == (N % 3600) \div 60
        sec == N % 60
    IN  /\ h * 3600 + m * 60 + sec = N /\ m < 60 /\ sec < 60
        /\ remainingTime =
             (IF h > 0 THEN ToString(h) \o "h " ELSE "")
               \o Two(m) \o ":" \o Two(sec) \o " remaining"
        /\ N = 3661 => remainingTime = "1h 01:01 remaining"
        /\ N = 59 => remainingTime = "00:59 remaining"

\* a tick has shown the text of 3661 remaining seconds
C14_Witness ==
  /\ (sharingEndTime - now) \div 1000 = 3661
  /\ remainingTime = "1h 01:01 remaining"


\* ------------------------------------------------------------ the watch
\* a consumer of the position watch is active
Consumer == isEmergency \/ isSharingLocation

\* C15: while a consumer of the watch stays active, the watch the ref names
\* is not cancelled: over every step that leaves a consumer active, the ref
\* keeps its id and the watch of that id stays live.
C15_WatchKeptWhileConsumer ==
  [][(Consumer /\ Consumer' /\ locationWatchIdRef # NoRef)
       => /\ locationWatchIdRef' = locationWatchIdRef
          /\ \E w \in watches' : w.id = locationWatchIdRef]_vars

\* both consumers are active on a watch that is not the first one
C15_Witness ==
  /\ isEmergency /\ isSharingLocation
  /\ locationWatchIdRef = 2 /\ watches # {}


\* C16: with neither consumer active no watch is live and the ref is null;
\* with a consumer active the ref names a live watch, so that when one of
\* two active consumers stops, the other still has a live watch.
C16_WatchFollowsConsumers ==
  /\ [](~Consumer => (locationWatchIdRef = NoRef /\ watches = {}))
  /\ [](Consumer => \E w \in watches : w.id = locationWatchIdRef)
  /\ [][(isEmergency /\ isSharingLocation /\ Consumer'
           /\ ~(isEmergency' /\ isSharingLocation'))
         => \E w \in watches' : w.id = locationWatchIdRef']_vars

\* The sharing session has stopped while the emergency went on (the map on
\* the sharing screen is still the one in use, so the emergency began while
\* the session was active), and a watch is live.
C16_Witness ==
  /\ isEmergency /\ ~isSharingLocation
  /\ \E m \in maps : m.id = mapInstanceRef /\ m.container = "sharing"
  /\ \E w \in watches : w.id = locationWatchIdRef


\* C17: at most one position watch is live in every reachable state.
C17_AtMostOneWatch == Cardinality(watches) <= 1

\* both consumers are active and the location effect has run at least three
\* times with a consumer (the ids alternate), with one watch live
C17_Witness ==
  /\ isEmergency /\ isSharingLocation
  /\ locationWatchIdRef = 1 /\ Cardinality(watches) = 1


\* C18: a watch error leaves the watch live, the position, the emergency
\* episode and the sharing session as they are, and stores a notice: the
\* paused text as the status text of the sharing screen when a session is
\* active, the tracking error otherwise.
C18_WatchErrorKeepsTracking ==
  [][WatchError => /\ watches' = watches
                   /\ locationWatchIdRef' = locationWatchIdRef
                   /\ \E w \in watches' : w.id = locationWatchIdRef'
                   /\ location' = location /\ location' # NoLocation
                   /\ isEmergency' = isEmergency
                   /\ isSharingLocation' = isSharingLocation
                   /\ IF isSharingLocation
                      THEN remainingTime' = TextPaused /\ Screen' = "sharing"
                      ELSE error' = ErrWatch]_vars

\* the watch of the emergency episode has reported an error and runs on
C18_Witness ==
  /\ isEmergency /\ ~isSharingLocation /\ error = ErrWatch
  /\ location # NoLocation
  /\ \E w \in watches : w.id = locationWatchIdRef /\ ~w.sharing


\* ------------------------------------------------------------ inert keys
\* an overlay or episode flag is set
AnyFlag ==
  \/ isEmergency \/ isCallActive \/ showFakeCall
  \/ showContactSelector \/ isSharingLocation \/ showSharingOptions

\* C19: a key-down while an overlay or episode flag is set changes no tap
\* count, arms no timer and triggers no activation; and the step that clears
\* the last flag changes no tap count, leaves no gesture timer live and
\* triggers no activation (a dropped event is not replayed).
C19_KeysInertUnderFlags ==
  /\ [][(AnyFlag /\ KeyDown)
          => UNCHANGED <<volumeUpCount, longPressTimers, volumeUpTimers,
                         longPressTimeoutRef, volumeUpTimeoutRef,
                         posPending, siren, vibrating>>]_vars
  /\ [][(AnyFlag /\ ~AnyFlag')
          => /\ volumeUpCount' = volumeUpCount
             /\ longPressTimers' = {} /\ volumeUpTimers' = {}
             /\ posPending' <= posPending
             /\ siren' => siren
             /\ vibrating' => vibrating]_vars

\* a key-down was dropped (no key-down has been accepted so far), the overlay
\* has closed with the key still down, and nothing of it is left
C19_Witness ==
  /\ ~AnyFlag /\ key = "held" /\ run = 0
  /\ location # NoLocation
  /\ volumeUpCount = 0 /\ longPressTimers = {} /\ volumeUpTimers = {}
  /\ posPending = 0 /\ ~siren


C21_OneMapNoneWhenIdle ==
  /\ Cardinality(maps) <= 1
  /\ \A m \in maps : m.id = mapInstanceRef
  /\ ~Consumer => (mapInstanceRef = NoRef /\ maps = {})

\* the emergency episode has ended and none is active: the map built for it
\* on the home screen is the case the claim speaks of
C21_Witness ==
  /\ ~isEmergency /\ ~isSharingLocation /\ ~isRecording
  /\ location # NoLocation /\ posPending = 0
  /\ \E m \in maps : m.id = 1 /\ m.container = "home"



\* ------------------------------------------------------------ key-up
\* C22: a key-up clears the long-press timer the ref names and nothing else:
\* the tap count, the tap-window timer and its ref are as before.  No
\* long-press timer is live while the key is up, so a press that was released
\* fires no LongPress; and the key-down that follows a release within the
\* run adds to the count the earlier presses left.
C22_KeyUpCancelsLongPressOnly ==
  /\ [](key = "up" => longPressTimers = {})
  /\ [][(key # "up" /\ key' = "up")
          => /\ longPressTimers'
                  = Clear(longPressTimers, longPressTimeoutRef)
             /\ volumeUpCount' = volumeUpCount
             /\ volumeUpTimers' = volumeUpTimers
             /\ volumeUpTimeoutRef' = volumeUpTimeoutRef
             /\ pressLong' = 0]_vars
  /\ [][(key = "up" /\ key' = "tap")
          => volumeUpCount' = volumeUpCount + 1]_vars

\* two quick presses have been released within the long-press time of the
\* second, and both are counted
C22_Witness ==
  /\ key = "up" /\ volumeUpCount = 2 /\ run = 2
  /\ sinceDown < LongPressMs /\ pressLong = 0



\* ------------------------------------------------------------ tap window
\* C23: once more than the tap window has passed since the last accepted
\* key-down, the tap count is 0; and a key-down is a fourth tap only when
\* it comes within the window of the tap before it.
C23_TapWindowExpiryResets ==
  /\ [](sinceDown > TapWindowMs => volumeUpCount = 0)
  /\ [][FourthTap => sinceDown <= TapWindowMs]_vars

\* two taps were counted, the key is up and more than the tap window has
\* passed since the second
C23_Witness ==
  /\ key = "up" /\ sinceDown > TapWindowMs /\ run = 0
  /\ volumeUpCount = 2 /\ ~Inert /\ posPending = 0



C25_FootageFlushedToArtifact ==
  /\ [][(DataAvailable("own") /\ "own" \in recordedChunksRef')
          => "own" \in artifact'.chunks]_vars
  /\ [](artifact.built => "old" \notin artifact.chunks)

\* the episode was stopped, its recording downloaded, and the data event of
\* the stopped recorder has delivered its chunk
C25_Witness ==
  /\ ~isEmergency /\ ~isRecording /\ recorder = "inactive"
  /\ artifact.built /\ dataPending = NoData
  /\ recordedChunksRef = {"own"}



\* ------------------------------------------------------------ wording
\* C26: a watch error with the emergency episode active stores the tracking
\* error and leaves the status text of the sharing screen, whether or not a
\* sharing session is active too; with the sharing session alone it stores
\* the paused text as the status text and leaves the error.
C26_EmergencyWordingFirst ==
  [][WatchError
       => IF isEmergency
          THEN error' = ErrWatch /\ remainingTime' = remainingTime
          ELSE remainingTime' = TextPaused /\ error' = error]_vars

\* the watch has reported an error while the emergency episode and the
\* sharing session were both active
C26_Witness ==
  /\ isEmergency /\ isSharingLocation
  /\ remainingTime = TextPaused
  /\ \E w \in watches : w.id = locationWatchIdRef /\ w.sharing



\* ------------------------------------------------------------ two episodes
\* C27: handleStopEmergency leaves the sharing flag, the end time, the
\* status text and the sharing tick timer as they are; a step that ends the
\* sharing session, by the button or by expiry, leaves the emergency flag,
\* the recording, the recorder, the siren and the vibration as they are.
C27_StopLeavesOtherEpisode ==
  /\ [][HandleStopEmergency
          => UNCHANGED <<isSharingLocation, sharingEndTime, remainingTime,
                         shareTimers, locationSharingTimerRef>>]_vars
  /\ [][(isSharingLocation /\ ~isSharingLocation')
          => UNCHANGED <<isEmergency, isRecording, recorder, leaked,
                         siren, vibrating>>]_vars

\* a sharing session has expired during an emergency episode, which goes on
\* with its capture and its siren
C27_Witness ==
  /\ ended = "expired" /\ ~isSharingLocation
  /\ isEmergency /\ isRecording /\ recorder = "recording" /\ siren



\* ------------------------------------------------------------ start sharing
\* C28: handleStartSharing with a position known starts a session only when
\* none is active, closes the dialog and makes the session active; its end
\* time is null with the status text "Sharing indefinitely", or the time of
\* the call plus the minutes of one of the buttons in milliseconds.
C28_StartSharingSetsEndTime ==
  [][(HandleStartSharing /\ location # NoLocation)
       => /\ ~isSharingLocation /\ isSharingLocation'
          /\ showSharingOptions /\ ~showSharingOptions'
          /\ \/ /\ sharingEndTime' = NoEndTime
                /\ remainingTime' = TextIndefinite
             \/ \E d \in Durations :
                  sharingEndTime' = now + d * 60 * 1000]_vars

\* a session of a quarter of an hour has been started at a time other than
\* time 0 and no time has passed since
C28_Witness ==
  /\ isSharingLocation /\ ~showSharingOptions /\ ended = "running"
  /\ now > 0 /\ sharingEndTime = now + 15 * MsPerMinute
  /\ \E t \in shareTimers : t.endTime = sharingEndTime



\* ------------------------------------------------------------ timers
\* C29: in every reachable state at most one long-press timer, at most one
\* tap-window timer, at most one call timer and at most one sharing tick
\* timer is live.
C29_TimersSingular ==
  \A kind \in TimerKinds : Cardinality(LiveTimers(kind)) <= 1

\* a fake call is under way with its timer, which has ticked, after taps
\* were counted and a sharing session had run and was stopped
C29_Witness ==
  /\ isCallActive /\ Cardinality(callTimers) = 1 /\ callTimer = MaxCallTimer
  /\ volumeUpCount = 2 /\ ended = "user" /\ shareTimers = {}



\* ------------------------------------------------------------ the marker
\* C30: a position update of the watch that finds a map leaves that map
\* with its marker on the new position, and with its view centred on the
\* new position, or, when the user was dragging the map, where it was.
C30_MarkerFollowsViewUnlessDragged ==
  [][(WatchPosition /\ mapInstanceRef # NoRef)
       => \E m \in maps, n \in maps' :
            /\ m.id = mapInstanceRef /\ n.id = m.id
            /\ mapInstanceRef' = mapInstanceRef
            /\ n.marker = location'
            /\ n.center = IF m.dragging THEN m.center
                          ELSE location']_vars

\* the user is dragging the map of the emergency episode, and its marker
\* stands on a position other than the one the map was built on
C30_Witness ==
  /\ isEmergency
  /\ \E m \in maps : /\ m.id = mapInstanceRef /\ m.dragging
                     /\ m.container = "home"
                     /\ m.marker = location /\ location = 2


\* ------------------------------------------------------------ tap count
\* C31: the tap count is between 0 and 3 in every state, and the accepted
\* key-down that finds it at 3 is classified as QuadTap (one more QuadTap in
\* the run, one position request issued) and leaves the count at 0 in the
\* same step.
C31_TapCountBelowFour ==
  /\ [](volumeUpCount \in 0..(QuadTaps - 1))
  /\ [][FourthTap => /\ volumeUpCount' = 0
                     /\ runQuads' >= 1
                     /\ posPending' = posPending + 1]_vars

\* the fourth tap of a run has just been classified, before the episode is
\* active
C31_Witness ==
  /\ volumeUpCount = 0 /\ key = "held" /\ sinceDown = 0
  /\ run = QuadTaps /\ runQuads = 1 /\ posPending = 1 /\ ~isEmergency


\* ------------------------------------------------------------ repeats
\* C32: every key-down event other than the first key-down of a press of
\* the volume key (a repeated key-down of the held volume key, or a key-down
\* of another key) changes no tap count, no timer, no ref and no request,
\* and leaves the press as it was.
C32_RepeatedKeyDownIgnored ==
  [][(KeyDown /\ ~(key = "up" /\ key' # "up"))
       => UNCHANGED <<state, refs, pending, key>>]_vars

\* the volume key has been down for half a second after an accepted tap,
\* with taps counted and the handler active: the key repeats
C32_Witness ==
  /\ key = "tap" /\ sinceDown = Quantum /\ ~Inert
  /\ volumeUpCount = 2 /\ run = 2


\* ------------------------------------------------------------ late capture
\* C33: with the emergency episode idle no media recorder is recording,
\* neither the one mediaRecorderRef holds nor one it has lost.
C33_CaptureOnlyWhileActive ==
  ~isEmergency => (recorder # "recording" /\ leaked = 0)

\* the episode was stopped while startRecording waited for the stream, the
\* stream was granted afterwards, and the only recorder ever made records
\* with the episode idle
C33_Witness ==
  /\ ~isEmergency /\ recorder = "recording" /\ isRecording
  /\ leaked = 0 /\ InFlight = 0 /\ location # NoLocation
  /\ artifact = NoArtifact /\ ~siren


\* ------------------------------------------------------------ sharing shield
\* C34: a step taken while a sharing session is active issues no position
\* request and starts neither siren nor vibration; key events and the
\* passing of time during the session change no state, no ref and no
\* request; the home screen is not shown; no long-press timer is live
\* during the session; and a step that makes the episode active during the
\* session takes a position request that was in flight.
C34_NoActivationWhileSharing ==
  /\ [][isSharingLocation => /\ posPending' <= posPending
                             /\ siren' => siren
                             /\ vibrating' => vibrating]_vars
  /\ [][(isSharingLocation /\ (KeyDown \/ KeyUp \/ TimePasses))
          => UNCHANGED <<state, refs, pending>>]_vars
  /\ [](isSharingLocation => /\ Screen # "home"
                             /\ longPressTimers = {})
  /\ [][(isSharingLocation /\ ~isEmergency /\ isEmergency')
          => /\ posPending + posStale > 0
             /\ posPending' + posStale' = posPending + posStale - 1]_vars

\* a session is active with the episode idle, the volume key held down past
\* the long-press time and a position request of the SOS button still in
\* flight: the request was issued before the session started
C34_Witness ==
  /\ isSharingLocation /\ ~isEmergency /\ location # NoLocation
  /\ key = "tap" /\ sinceDown = SinceCap /\ volumeUpCount = 1
  /\ posPending = 1 /\ siren /\ shareTimers # {}


\* ------------------------------------------------------------ one overlay
\* the overlay and session flags that are set
FlagsSet ==
  {f \in {"call", "ringing", "contacts", "sharing", "shareOptions"} :
     CASE f = "call" -> isCallActive
       [] f = "ringing" -> showFakeCall
       [] f = "contacts" -> showContactSelector
       [] f = "sharing" -> isSharingLocation
       [] f = "shareOptions" -> showSharingOptions}

\* the screen a render would show that tested the flags in the opposite
\* order
ScreenBackwards ==
  IF showSharingOptions THEN "shareOptions"
  ELSE IF isSharingLocation THEN "sharing"
  ELSE IF showContactSelector THEN "contacts"
  ELSE IF showFakeCall THEN "ringing"
  ELSE IF isCallActive THEN "call"
  ELSE view

\* C35: at most one of isCallActive, showFakeCall, showContactSelector,
\* showSharingOptions and isSharingLocation is true, the screen shown is the
\* one of the flag that is set (a view when none is), and a render testing
\* the flags in the opposite order would show the same screen.
C35_AtMostOneOverlayFlag ==
  /\ Cardinality(FlagsSet) <= 1
  /\ FlagsSet \subseteq {Screen}
  /\ FlagsSet = {} => Screen \in Views
  /\ Screen = ScreenBackwards

\* a call was accepted on the tools view after a sharing session had been
\* stopped: every flag has been set and handed over in turn
C35_Witness ==
  /\ FlagsSet = {"call"} /\ view = "tools"
  /\ ended = "user" /\ location # NoLocation

====
